---- MODULE Spec2Model ----
(***************************************************************************)
(* Model of Actividad-2.py: a knowledge base of transit connections        *)
(* (KnowledgeBase: add_edge, neighbors, make_bidirectional, add_transfers) *)
(* and the mode-penalised shortest-route search (dijkstra).                *)
(*                                                                         *)
(* Representation                                                          *)
(*   - self.edges is a function from a set of pairs <<u, v>> to records    *)
(*     [mode, time, cost].  Python keeps the dict in insertion order; no   *)
(*     result modelled here depends on that order (the rules write        *)
(*     distinct keys or equal values, the heap pops the least tuple).      *)
(*   - numbers are naturals.  In the seed network of the main program     *)
(*     they are fixed-point tenths (4 minutes is 40, cost 1.5 is 15).      *)
(*   - Python's None is the string None, which is no mode of any edge.     *)
(***************************************************************************)
EXTENDS Integers, Sequences, FiniteSets

VARIABLES
    edges,      \* KnowledgeBase.edges
    calls,      \* the last (at most two) knowledge-base calls: [op, before]
    adds,       \* number of add_edge calls made by the caller so far
    pc,         \* position of the caller / of dijkstra's loop
    query,      \* dijkstra's arguments [start, goal, metric, transfer_penalty]
    pq,         \* dijkstra's priority queue
    visited,    \* dijkstra's visited map
    popped,     \* the tuple taken by the last heappop, and what was done with it
    result      \* dijkstra's return value [path, total]

vars == <<edges, calls, adds, pc, query, pq, visited, popped, result>>

---------------------------------------------------------------------------
(* Values *)

None == "None"

\* float("inf"): every accumulated value is >= 0, so -1 is no total of a route
Inf == -1

NoEdges == [k \in {} |-> [mode |-> "", time |-> 0, cost |-> 0]]

Props(mode, time, cost) == [mode |-> mode, time |-> time, cost |-> cost]

Rev(k) == <<k[2], k[1]>>

---------------------------------------------------------------------------
(* class KnowledgeBase *)

\* self.edges[k] = p
Put(E, k, p) == [x \in DOMAIN E \cup {k} |-> IF x = k THEN p ELSE E[x]]

add_edge(E, u, v, mode, time, cost, bidirectional) ==
    LET E1 == Put(E, <<u, v>>, Props(mode, time, cost))
    IN  IF bidirectional THEN Put(E1, <<v, u>>, Props(mode, time, cost)) ELSE E1

\* the edges into node are followed instead of the edges out of it
neighbors_inbound(E, node) == {<<k[1], E[k]>> : k \in {x \in DOMAIN E : x[2] = node}}

\* the pairs (b, props) that neighbors(node) yields
neighbors(E, node) == {<<k[2], E[k]>> : k \in {x \in DOMAIN E : x[1] = node}}

\* "for u, v, m, t, c in new_edges: self.add_edge(u, v, m, t, c, bidirectional)"
RECURSIVE AddAll(_, _, _)
AddAll(E, new_edges, bidirectional) ==
    IF new_edges = {} THEN E
    ELSE LET e == CHOOSE x \in new_edges : TRUE
         IN  AddAll(add_edge(E, e[1], e[2], e[3], e[4], e[5], bidirectional),
                    new_edges \ {e}, bidirectional)

\* the reverse of every stored edge is written, present or not
make_bidirectional_overwrite(E) ==
    AddAll(E, {<<k[2], k[1], E[k].mode, E[k].time, E[k].cost>> : k \in DOMAIN E}, FALSE)

\* the new edge is appended as (u, v) again instead of (v, u)
make_bidirectional_unswapped(E) ==
    LET new_edges == {<<k[1], k[2], E[k].mode, E[k].time, E[k].cost>> :
                         k \in {x \in DOMAIN E : Rev(x) \notin DOMAIN E}}
    IN  AddAll(E, new_edges, FALSE)

make_bidirectional(E) ==
    LET new_edges == {<<k[2], k[1], E[k].mode, E[k].time, E[k].cost>> :
                         k \in {x \in DOMAIN E : Rev(x) \notin DOMAIN E}}
    IN  AddAll(E, new_edges, FALSE)

\* the walk edge is written whether or not (b, d) is already stored
add_transfers_overwrite(E, penalty_time) ==
    LET pairs == {kk \in (DOMAIN E) \X (DOMAIN E) :
                     /\ kk[1][1] = kk[2][1]
                     /\ kk[1][2] # kk[2][2]
                     /\ E[kk[1]].mode # E[kk[2]].mode}
    IN  AddAll(E, {<<kk[1][2], kk[2][2], "walk", penalty_time, 0>> : kk \in pairs}, TRUE)

add_transfers(E, penalty_time) ==
    LET pairs == {kk \in (DOMAIN E) \X (DOMAIN E) :
                     /\ kk[1][1] = kk[2][1]
                     /\ kk[1][2] # kk[2][2]
                     /\ E[kk[1]].mode # E[kk[2]].mode
                     /\ <<kk[1][2], kk[2][2]>> \notin DOMAIN E}
        new_edges == {<<kk[1][2], kk[2][2], "walk", penalty_time, 0>> : kk \in pairs}
    IN  AddAll(E, new_edges, TRUE)

\* the stations: every origin and destination of a stored edge
estaciones(E) == {k[1] : k \in DOMAIN E} \cup {k[2] : k \in DOMAIN E}

---------------------------------------------------------------------------
(* def dijkstra(kb, start, goal, metric="time", transfer_penalty=2.0) *)

\* the strings of the model in Python's str order (upper case before lower)
StrOrder == <<"", "A", "B", "C", "Centro", "D", "P1", "P2", "X", "Y",
              "bus", "metro", "tram", "walk">>

Rank(s) == CHOOSE i \in 1 .. Len(StrOrder) : StrOrder[i] = s

\* Python's list < list on lists of strings
ListLess(p, q) ==
    \/ /\ Len(p) < Len(q)
       /\ \A i \in 1 .. Len(p) : p[i] = q[i]
    \/ \E i \in 1 .. Len(p) :
          /\ i <= Len(q)
          /\ \A j \in 1 .. i - 1 : p[j] = q[j]
          /\ Rank(p[i]) < Rank(q[i])

\* Python's tuple < tuple on (acc, node, prev_mode, path)
TupleLess(x, y) ==
    \/ x.acc < y.acc
    \/ /\ x.acc = y.acc
       /\ \/ Rank(x.node) < Rank(y.node)
          \/ /\ x.node = y.node
             /\ \/ Rank(x.mode) < Rank(y.mode)
                \/ /\ x.mode = y.mode
                   /\ ListLess(x.path, y.path)

\* comparing two queued tuples raises TypeError when it comes to compare None
\* with a str: equal acc and node, and exactly one prev_mode is None
Incomparable(x, y) ==
    /\ x.acc = y.acc
    /\ x.node = y.node
    /\ x.mode # y.mode
    /\ (x.mode = None \/ y.mode = None)

Raises(queue) == \E x \in queue, y \in queue : Incomparable(x, y)

Item(acc, node, prev_mode, path) ==
    [acc |-> acc, node |-> node, mode |-> prev_mode, path |-> path]

\* the tuple heappop(pq) returns: the least one
Least(queue) == CHOOSE x \in queue : \A y \in queue \ {x} : TupleLess(x, y)

\* the visited map keyed by the node alone
Key_node_only(node, prev_mode) == <<node, None>>

\* key = (node, prev_mode)
Key(node, prev_mode) == <<node, prev_mode>>

\* the stale test with < in place of <=
Seen_strict(V, key, acc) == key \in DOMAIN V /\ V[key] < acc

\* "if key in visited and visited[key] <= acc: continue"
Seen(V, key, acc) == key \in DOMAIN V /\ V[key] <= acc

\* Python's truth value of prev_mode: None and the empty string are false
Truthy(prev_mode) == prev_mode # None /\ prev_mode # ""

\* penalty = transfer_penalty if prev_mode and prev_mode != next_mode else 0
Penalty(prev_mode, next_mode, transfer_penalty) ==
    IF Truthy(prev_mode) /\ prev_mode # next_mode THEN transfer_penalty ELSE 0

\* props[metric]
Base(props, metric) == IF metric = "time" THEN props.time ELSE props.cost

\* the tuples the for loop pushes when (acc, node, prev_mode, path) is expanded
Pushed(E, q, x) ==
    {Item(x.acc + Base(n[2], q.metric) + Penalty(x.mode, n[2].mode, q.transfer_penalty),
          n[1], n[2].mode, Append(x.path, n[1])) : n \in neighbors(E, x.node)}

NoPath == <<>>

NoRoute == [path |-> NoPath, total |-> Inf]

---------------------------------------------------------------------------
(* Bounds and input sets *)

\* the caller makes at most MaxAdds add_edge calls
MaxAdds == 2

\* add_transfers(self, penalty_time=3.0)
PenaltyTime == 3

\* the stations the caller of the knowledge base names
Nodes == {"A", "B", "C"}

\* the modes the caller of the knowledge base names (the rules add "walk")
Modes == {"bus", "metro"}

\* times and costs the caller of the knowledge base passes to add_edge
Times == {1, 2}

Costs == {1}

\* the record of a knowledge-base call: its name and self.edges before it
Call(op, before) == [op |-> op, before |-> before]

\* the last two calls, the latest last
Record(c) == IF Len(calls) = 0 THEN <<c>> ELSE <<calls[Len(calls)], c>>

Query(start, goal, metric, transfer_penalty) ==
    [start |-> start, goal |-> goal, metric |-> metric,
     transfer_penalty |-> transfer_penalty]

NoVisited == [k \in {} |-> 0]

\* what the last heappop took: the number of heappops so far, the tuple, the
\* branch of the loop body it went to, and whether its key was new to visited
Pop(n, tuple, branch, fresh) ==
    [n |-> n, tuple |-> tuple, branch |-> branch, fresh |-> fresh]

NoPop == Pop(0, Item(0, "", None, <<>>), "none", FALSE)

\* no search is running
Idle == /\ pq = {}
        /\ visited = NoVisited
        /\ popped = NoPop
        /\ result = NoRoute
        /\ query = Query("", "", "time", 0)

---------------------------------------------------------------------------
(* Specification of the knowledge base: any sequence of calls of add_edge, *)
(* make_bidirectional and add_transfers on a KnowledgeBase()               *)

Init ==
    /\ edges = NoEdges
    /\ calls = <<>>
    /\ adds = 0
    /\ pc = "kb"
    /\ Idle

AddEdge(u, v, mode, time, cost, bidirectional) ==
    /\ pc = "kb"
    /\ adds < MaxAdds
    /\ edges' = add_edge(edges, u, v, mode, time, cost, bidirectional)
    /\ calls' = <<>>
    /\ adds' = adds + 1
    /\ UNCHANGED <<pc, query, pq, visited, popped, result>>

MakeBidirectional ==
    /\ pc = "kb"
    /\ edges' = make_bidirectional(edges)
    /\ calls' = Record(Call("make_bidirectional", edges))
    /\ UNCHANGED <<adds, pc, query, pq, visited, popped, result>>

AddTransfers(penalty_time) ==
    /\ pc = "kb"
    /\ edges' = add_transfers(edges, penalty_time)
    /\ calls' = Record(Call("add_transfers", edges))
    /\ UNCHANGED <<adds, pc, query, pq, visited, popped, result>>

Next ==
    \/ \E u \in Nodes, v \in Nodes, mode \in Modes, time \in Times, cost \in Costs,
          bidirectional \in BOOLEAN :
          AddEdge(u, v, mode, time, cost, bidirectional)
    \/ MakeBidirectional
    \/ AddTransfers(PenaltyTime)

Spec == Init /\ [][Next]_vars

\* The caller builds a knowledge base and then only repeats add_transfers.
NextTransfers ==
    \/ \E u \in Nodes, v \in Nodes, mode \in Modes, time \in Times, cost \in Costs,
          bidirectional \in BOOLEAN :
          /\ calls = <<>>
          /\ AddEdge(u, v, mode, time, cost, bidirectional)
    \/ AddTransfers(PenaltyTime)

SpecTransfers == Init /\ [][NextTransfers]_vars /\ WF_vars(AddTransfers(PenaltyTime))

---------------------------------------------------------------------------
(* dijkstra, one action per pass through a branch of its loop *)

\* lines 79-80: pq = [(0, start, None, [start])]; visited = {}
Enter(at, start, goal, metric, transfer_penalty) ==
    /\ pc = at
    /\ query' = Query(start, goal, metric, transfer_penalty)
    /\ pq' = {Item(0, start, None, <<start>>)}
    /\ visited' = NoVisited
    /\ popped' = NoPop
    /\ result' = NoRoute
    /\ pc' = "loop"
    /\ UNCHANGED <<edges, calls, adds>>

\* lines 83-87: the popped node is the goal
PopGoal ==
    /\ pc = "loop"
    /\ pq # {}
    /\ LET x == Least(pq)
       IN  /\ x.node = query.goal
           /\ pq' = pq \ {x}
           /\ popped' = Pop(popped.n + 1, x, "return",
                            Key(x.node, x.mode) \notin DOMAIN visited)
           /\ result' = [path |-> x.path, total |-> x.acc]
           /\ pc' = "done"
    /\ UNCHANGED <<edges, calls, adds, query, visited>>

\* lines 83-92: the popped state was visited with a value no greater
PopSeen ==
    /\ pc = "loop"
    /\ pq # {}
    /\ LET x == Least(pq)
       IN  /\ x.node # query.goal
           /\ Seen(visited, Key(x.node, x.mode), x.acc)
           /\ pq' = pq \ {x}
           /\ popped' = Pop(popped.n + 1, x, "continue", FALSE)
    /\ UNCHANGED <<edges, calls, adds, query, visited, result, pc>>

\* lines 83-102: the popped state is recorded and its neighbours are pushed
PopExpand ==
    /\ pc = "loop"
    /\ pq # {}
    /\ LET x == Least(pq)
           key == Key(x.node, x.mode)
           queue == (pq \ {x}) \cup Pushed(edges, query, x)
       IN  /\ x.node # query.goal
           /\ ~Seen(visited, key, x.acc)
           /\ visited' = Put(visited, key, x.acc)
           /\ pq' = queue
           /\ popped' = Pop(popped.n + 1, x, "expand", key \notin DOMAIN visited)
           /\ pc' = IF Raises(queue) THEN "raised" ELSE "loop"
    /\ UNCHANGED <<edges, calls, adds, query, result>>

\* lines 82, 105: the queue is empty
Exhausted ==
    /\ pc = "loop"
    /\ pq = {}
    /\ result' = NoRoute
    /\ pc' = "done"
    /\ UNCHANGED <<edges, calls, adds, query, pq, visited, popped>>

---------------------------------------------------------------------------
(* Specification of the search: dijkstra on any knowledge base that at     *)
(* most MaxAdds add_edge calls build, for any start, goal, metric and     *)
(* transfer penalty                                                        *)

\* def dijkstra(..., transfer_penalty=2.0)
TransferPenalty == 2

\* the modes of the searched knowledge bases, the empty string among them
SearchModes == {"", "bus", "metro"}

\* (time, cost) of an edge of a searched knowledge base
SearchWeights == {<<0, 1>>, <<1, 0>>}

NextSearch ==
    \/ \E u \in Nodes, v \in Nodes, mode \in SearchModes, w \in SearchWeights :
          AddEdge(u, v, mode, w[1], w[2], FALSE)
    \/ \E start \in Nodes, goal \in Nodes, metric \in {"time", "cost"},
          transfer_penalty \in {0, TransferPenalty} :
          Enter("kb", start, goal, metric, transfer_penalty)
    \/ PopGoal
    \/ PopSeen
    \/ PopExpand
    \/ Exhausted

SpecSearch == Init /\ [][NextSearch]_vars

---------------------------------------------------------------------------
(* Specification of the main program: the seed network, the two rules, and *)
(* the menu.  Times and costs are in tenths.  The menu's prints, and its   *)
(* answers to an unknown station, metric or option, change no state and    *)
(* are left out.                                                           *)

Tenths(x) == 10 * x

\* lines 114-121: the base facts, in call order
SeedFacts == <<
    <<"A", "B", "metro", 40, 15>>,
    <<"B", "C", "metro", 30, 12>>,
    <<"C", "D", "metro", 50, 18>>,
    <<"B", "P1", "bus", 60, 9>>,
    <<"P1", "P2", "bus", 80, 11>>,
    <<"P2", "D", "bus", 70, 10>>,
    <<"A", "Centro", "tram", 100, 17>>,
    <<"Centro", "D", "tram", 90, 16>> >>

RECURSIVE AddFacts(_, _)
AddFacts(E, facts) ==
    IF facts = <<>> THEN E
    ELSE LET f == Head(facts)
         IN  AddFacts(add_edge(E, f[1], f[2], f[3], f[4], f[5], TRUE), Tail(facts))

\* kb.make_bidirectional(); kb.add_transfers()
ApplyRules(E) == add_transfers(make_bidirectional(E), Tenths(PenaltyTime))

\* lines 111-125
SeedEdges == ApplyRules(AddFacts(NoEdges, SeedFacts))

\* the routes a user types at option 1: (origin, destination, mode, time, cost)
MenuRoutes == {<<"X", "Y", "bus", 20, 10>>}

InitMain ==
    /\ edges = SeedEdges
    /\ calls = <<>>
    /\ adds = 0
    /\ pc = "menu"
    /\ Idle

\* option 1: add a route, then apply both rules
Option1(u, v, mode, time, cost) ==
    /\ pc = "menu"
    /\ adds < MaxAdds
    /\ edges' = ApplyRules(add_edge(edges, u, v, mode, time, cost, TRUE))
    /\ adds' = adds + 1
    /\ UNCHANGED <<calls, pc, query, pq, visited, popped, result>>

\* option 2 with known stations and a known metric: the call of dijkstra
Option2(origen, destino, metric) ==
    /\ origen \in estaciones(edges)
    /\ destino \in estaciones(edges)
    /\ Enter("menu", origen, destino, metric, Tenths(TransferPenalty))

\* option 2 after dijkstra returned: the route is printed, back to the menu
Option2Print ==
    /\ pc = "done"
    /\ pc' = "menu"
    /\ pq' = {}
    /\ visited' = NoVisited
    /\ popped' = NoPop
    /\ result' = NoRoute
    /\ query' = Query("", "", "time", 0)
    /\ UNCHANGED <<edges, calls, adds>>

\* option 4: break
Option4 ==
    /\ pc = "menu"
    /\ pc' = "exit"
    /\ UNCHANGED <<edges, calls, adds, query, pq, visited, popped, result>>

NextMain ==
    \/ \E r \in MenuRoutes : Option1(r[1], r[2], r[3], r[4], r[5])
    \/ \E origen \in estaciones(edges), destino \in estaciones(edges),
          metric \in {"time", "cost"} :
          Option2(origen, destino, metric)
    \/ PopGoal
    \/ PopSeen
    \/ PopExpand
    \/ Exhausted
    \/ Option2Print
    \/ Option4

SpecMain == InitMain /\ [][NextMain]_vars

---------------------------------------------------------------------------
(* Claims about the knowledge base, checked under Spec (C7: SpecTransfers) *)

LastCall == calls[Len(calls)]

Twice(op) == /\ Len(calls) = 2
             /\ calls[1].op = op
             /\ calls[2].op = op

\* C3: make_bidirectional() called twice in a row leaves exactly the edge
\* mapping (keys and attributes) that the first call left.
C3_SymmetryIdempotent ==
    Twice("make_bidirectional") => edges = calls[2].before

\* two calls in a row, the first of which added reverse edges
C3_Witness ==
    /\ Twice("make_bidirectional")
    /\ calls[1].before # calls[2].before

\* C4 as claimed: add_transfers(p) called twice in a row leaves exactly the
\* edge mapping that the first call left.
C4_TransferIdempotent ==
    Twice("add_transfers") => edges = calls[2].before

\* C5 as claimed: after make_bidirectional() every stored edge has its reverse
\* stored with the same mode, time and cost.
C5_ReverseIdentical ==
    (Len(calls) > 0 /\ LastCall.op = "make_bidirectional") =>
        \A k \in DOMAIN edges : Rev(k) \in DOMAIN edges /\ edges[Rev(k)] = edges[k]

\* C5 amended: after make_bidirectional() every stored edge has its reverse
\* stored; an edge the call inserted has the attributes of its reverse, and
\* every edge stored before the call keeps its attributes (so a pair stored in
\* both directions with different attributes stays different).
C5_ReversePresent ==
    (Len(calls) > 0 /\ LastCall.op = "make_bidirectional") =>
        \A k \in DOMAIN edges :
            /\ Rev(k) \in DOMAIN edges
            /\ k \notin DOMAIN LastCall.before => edges[k] = edges[Rev(k)]
            /\ k \in DOMAIN LastCall.before => edges[k] = LastCall.before[k]

\* the call inserted a reverse edge and kept an edge stored before it
C5_Witness ==
    /\ Len(calls) > 0
    /\ LastCall.op = "make_bidirectional"
    /\ DOMAIN edges # DOMAIN LastCall.before
    /\ DOMAIN LastCall.before # {}

\* a call of add_transfers would change nothing
FixedPoint == add_transfers(edges, PenaltyTime) = edges

\* C7: a call of add_transfers keeps every key, adds keys only between
\* stations already known, and either leaves the mapping unchanged or adds a
\* key; and repeated calls reach a mapping that further calls leave unchanged.
C7_TransfersReachFixedPoint ==
    /\ []((Len(calls) > 0 /\ LastCall.op = "add_transfers") =>
            /\ DOMAIN LastCall.before \subseteq DOMAIN edges
            /\ estaciones(edges) = estaciones(LastCall.before)
            /\ \/ edges = LastCall.before
               \/ Cardinality(DOMAIN edges) > Cardinality(DOMAIN LastCall.before))
    /\ <>[]FixedPoint

\* a second call in a row still added walk edges, and the mapping is now one
\* that a further call leaves unchanged
C7_Witness ==
    /\ Twice("add_transfers")
    /\ calls[1].before # calls[2].before
    /\ calls[2].before # edges
    /\ FixedPoint

\* C10 as claimed: add_transfers(p) only adds edges; every key stored before
\* the call is still stored with unchanged mode, time and cost.
C10_TransfersOnlyAdd ==
    (Len(calls) > 0 /\ LastCall.op = "add_transfers") =>
        \A k \in DOMAIN LastCall.before :
            k \in DOMAIN edges /\ edges[k] = LastCall.before[k]

---------------------------------------------------------------------------
(* Claims about dijkstra, checked under SpecSearch *)

\* the accumulated value the claims give a path: the metric of its edges plus
\* the transfer penalty for every edge whose mode differs from the mode of the
\* edge before it
RECURSIVE ClaimedValue(_, _, _, _)
ClaimedValue(E, path, metric, transfer_penalty) ==
    IF Len(path) < 2 THEN 0
    ELSE LET n == Len(path)
             last == E[<<path[n - 1], path[n]>>]
             switch == n > 2 /\ E[<<path[n - 2], path[n - 1]>>].mode # last.mode
         IN  ClaimedValue(E, SubSeq(path, 1, n - 1), metric, transfer_penalty)
               + Base(last, metric) + (IF switch THEN transfer_penalty ELSE 0)

IsPath(E, path) ==
    \A i \in 1 .. Len(path) - 1 : <<path[i], path[i + 1]>> \in DOMAIN E

\* the paths from start that visit no station twice (with weights and penalty
\* non-negative, a path that repeats a station is never cheaper than the
\* path without the detour)
RECURSIVE SimplePaths(_, _)
SimplePaths(E, paths) ==
    LET longer == {Append(p, k[2]) : p \in paths, k \in DOMAIN E}
        more == {p \in longer :
                    /\ <<p[Len(p) - 1], p[Len(p)]>> \in DOMAIN E
                    /\ \A i \in 1 .. Len(p) - 1 : p[i] # p[Len(p)]}
    IN  IF more \subseteq paths THEN paths ELSE SimplePaths(E, paths \cup more)

Routes(E, start, goal) ==
    {p \in SimplePaths(E, {<<start>>}) : p[Len(p)] = goal}

Minimum(S) == CHOOSE m \in S : \A x \in S : m <= x

Returned == pc = "done"

\* C1 as claimed: when goal is reachable from start, the returned total is the
\* minimum over the paths from start to goal of the accumulated value.
C1_TotalIsMinimum ==
    (Returned /\ Routes(edges, query.start, query.goal) # {}) =>
        result.total =
            Minimum({ClaimedValue(edges, p, query.metric, query.transfer_penalty) :
                        p \in Routes(edges, query.start, query.goal)})

\* C9 as claimed: a returned path starts at start, ends at goal, follows
\* stored edges, and the total is the metric of its edges plus the transfer
\* penalty for every edge whose mode differs from that of the edge before it.
C9_TotalIsValueOfPath ==
    (Returned /\ result.path # NoPath) =>
        /\ result.path[1] = query.start
        /\ result.path[Len(result.path)] = query.goal
        /\ IsPath(edges, result.path)
        /\ result.total =
              ClaimedValue(edges, result.path, query.metric, query.transfer_penalty)

NoInbound(E, goal) == \A k \in DOMAIN E : k[2] # goal

\* C6 as claimed: if no stored edge has goal as its destination, dijkstra
\* returns no route (path None, total infinity), whatever start is.
C6_NoInboundNoRoute ==
    (pc \in {"loop", "done", "raised"} /\ NoInbound(edges, query.goal)) =>
        /\ pc # "raised"
        /\ Returned => result = NoRoute

\* C6 amended: if no stored edge has goal as its destination and start is not
\* goal, dijkstra returns no route (path None, total infinity) and does not
\* raise; (with start = goal it returns the path [start] with total 0).
C6_NoInboundNoRouteFromElsewhere ==
    (pc \in {"loop", "done", "raised"} /\ NoInbound(edges, query.goal)) =>
        /\ pc # "raised"
        /\ Returned =>
              result = IF query.start = query.goal
                       THEN [path |-> <<query.start>>, total |-> 0]
                       ELSE NoRoute

\* the search expanded start and a station beyond it, and found no route to a
\* goal that has outgoing edges only
C6_Witness ==
    /\ Returned
    /\ NoInbound(edges, query.goal)
    /\ query.start # query.goal
    /\ \E k \in DOMAIN edges : k[1] = query.goal
    /\ Cardinality(DOMAIN visited) >= 2
    /\ result = NoRoute

ModesOf(E) == {E[k].mode : k \in DOMAIN E}

\* C8: the loop ends, by popping goal or by emptying the queue and without
\* raising: the number of its passes (one heappop each) never exceeds one for
\* the start tuple plus one for every edge out of every (node, previous mode)
\* state; no such state is expanded twice; and visited holds at most one entry
\* for every (node, mode) pair plus one for the start state.
C8_LoopEndsStatesExpandedOnce ==
    (pc \in {"loop", "done", "raised"}) =>
        /\ pc # "raised"
        /\ popped.branch = "expand" => popped.fresh
        /\ Cardinality(DOMAIN visited)
              <= Cardinality(estaciones(edges) \X ModesOf(edges)) + 1
        /\ popped.n <= 1 + Cardinality(DOMAIN edges) * (Cardinality(ModesOf(edges)) + 1)

\* a state reached a second time, at no smaller value, was not expanded again
\* and the search then ended
C8_Witness ==
    /\ Returned
    /\ popped.branch = "continue"
    /\ popped.tuple.acc = visited[Key(popped.tuple.node, popped.tuple.mode)]

---------------------------------------------------------------------------
(* Claim about the seed network, checked under SpecMain *)

SeedQuery == Query("A", "D", "time", Tenths(TransferPenalty))

\* C2: on the seed network, after both rules have been applied once,
\* dijkstra(kb, "A", "D", metric="time", transfer_penalty=2.0) returns the path
\* [A, B, C, D] with total 12 (120 tenths).
C2_SeedRoute ==
    (adds = 0 /\ Returned /\ query = SeedQuery) =>
        result = [path |-> <<"A", "B", "C", "D">>, total |-> Tenths(12)]

\* the search returned, having reached C by the walk edges A-P1-C (value 6)
\* before it reached C by metro (value 7)
C2_Witness ==
    /\ adds = 0
    /\ Returned
    /\ query = SeedQuery
    /\ <<"A", "P1">> \in DOMAIN edges /\ edges[<<"A", "P1">>].mode = "walk"
    /\ Key("C", "walk") \in DOMAIN visited
    /\ Key("C", "metro") \in DOMAIN visited
    /\ visited[Key("C", "walk")] = Tenths(6)
    /\ visited[Key("C", "metro")] = Tenths(7)

====
